---------------------------- MODULE Spec2Model ----------------------------
(***************************************************************************)
(* Model of the SPARQL HTTP benchmark: the run scheduler run_benchmark     *)
(* (benchmark.py), the invocation loops run_sync_package and               *)
(* run_async_package (factory.py) and the aggregator calculate_result      *)
(* (benchmark.py).                                                         *)
(*                                                                         *)
(* Floats are modelled as exact rationals <<numerator, denominator>> in    *)
(* lowest terms, byte strings as sequences of byte values, Python's None   *)
(* as a value that is no byte string.  Strategy instances are kept in the  *)
(* order of their construction together with the log of the calls made on  *)
(* them (a history variable: the program itself keeps no such log).        *)
(***************************************************************************)
EXTENDS Integers, Sequences, FiniteSets, TLC

(***************************************************************************)
(* Bounds.  The program runs 11 passes of 50 iterations; the model keeps   *)
(* the names of the program's constants and scales their values down.      *)
(***************************************************************************)
NUM_RUNS == 3

ITERATIONS_PER_QUERY == 3

MaxElapsed == 2

MaxPayloadLen == 1

MaxSamples == 2

(***************************************************************************)
(* The catalog (queries.py) and the strategy registries (factory.py),      *)
(* restricted to a sub-catalog that keeps one entry of each shape the      *)
(* scheduler and the claims distinguish (a SELECT, an ASK and a CONSTRUCT   *)
(* read, a write), in the catalog's order,                                 *)
(* and to two of the four sync and one of the two async strategies.        *)
(***************************************************************************)
QUERIES ==
    << [name |-> "select_simple", operation |-> "SELECT"],
       [name |-> "ask", operation |-> "ASK"],
       [name |-> "construct", operation |-> "CONSTRUCT"] >>

UPDATES ==
    << [name |-> "insert_data", operation |-> "INSERT"] >>

SYNC_PACKAGES == << "httpx_sync", "requests" >>

ASYNC_PACKAGES == << "aiohttp" >>

OperationKinds == {"SELECT", "ASK", "CONSTRUCT", "INSERT", "DELETE", "UPDATE"}

MutatingKinds == {"INSERT", "DELETE", "UPDATE"}

(***************************************************************************)
(* Values.                                                                 *)
(***************************************************************************)
None == << -1 >>

Bytes(n) == [i \in 1..n |-> 0]

Payloads == {Bytes(n) : n \in 0..MaxPayloadLen}

Elapsed == 1..MaxElapsed

RECURSIVE Gcd(_, _)
Gcd(a, b) == IF b = 0 THEN a ELSE Gcd(b, a % b)

\* Python's true division a / b for b # 0, as a rational in lowest terms.
TrueDiv(a, b) == << a \div Gcd(a, b), b \div Gcd(a, b) >>

RECURSIVE SeqSum(_)
SeqSum(s) == IF s = << >> THEN 0 ELSE Head(s) + SeqSum(Tail(s))

Range(s) == {s[i] : i \in DOMAIN s}

Permutations_(s) ==
    {p \in [DOMAIN s -> Range(s)] : \A i \in DOMAIN s : \E j \in DOMAIN s : p[j] = s[i]}


(***************************************************************************)
(* calculate_result (benchmark.py).  A sample is <<payload, elapsed>>.     *)
(***************************************************************************)
Sample(payload, elapsed) == << payload, elapsed >>

\* Python truthiness of bytes | None: None and b"" are falsy.
Truthy(payload) == payload # None /\ payload # << >>

times(results) == [i \in DOMAIN results |-> results[i][2]]

\* Variant: only a sample with a payload counts, whatever the operation.
successful_payload_only(results, operation) ==
    Cardinality({i \in DOMAIN results : results[i][1] # None})

\* len([r for r in results if r is not None or operation in (...)]):
\* the test is on the sample r itself, not on its payload r[0].
successful(results, operation) ==
    Cardinality({i \in DOMAIN results :
                    results[i] # None \/ operation \in MutatingKinds})

\* Variant: the size is taken from the last sample.
response_size_of_last(results) ==
    IF Truthy(results[Len(results)][1]) THEN Len(results[Len(results)][1]) ELSE 0

response_size(results) ==
    IF Truthy(results[1][1]) THEN Len(results[1][1]) ELSE 0

Raised(exc, library, operation, query_name) ==
    [exc |-> exc, library |-> library, operation |-> operation,
     query_name |-> query_name, requests_per_sec |-> << 0, 1 >>,
     total_time |-> 0, avg_request_time |-> << 0, 1 >>,
     response_size_bytes |-> 0, success_rate |-> << 0, 1 >>]

\* Variant: the two quotients are exchanged.
BenchmarkResultInverted(library, operation, query_name, results) ==
    [exc |-> "none", library |-> library, operation |-> operation,
     query_name |-> query_name,
     requests_per_sec |-> TrueDiv(SeqSum(times(results)), Len(results)),
     total_time |-> SeqSum(times(results)),
     avg_request_time |-> TrueDiv(Len(results), SeqSum(times(results))),
     response_size_bytes |-> response_size(results),
     success_rate |-> TrueDiv(successful(results, operation), Len(results))]

BenchmarkResult(library, operation, query_name, results) ==
    [exc |-> "none", library |-> library, operation |-> operation,
     query_name |-> query_name,
     requests_per_sec |-> TrueDiv(Len(results), SeqSum(times(results))),
     total_time |-> SeqSum(times(results)),
     avg_request_time |-> TrueDiv(SeqSum(times(results)), Len(results)),
     response_size_bytes |-> response_size(results),
     success_rate |-> TrueDiv(successful(results, operation), Len(results))]

calculate_result(library, operation, query_name, results) ==
    IF results = << >>
    THEN Raised("IndexError", library, operation, query_name)
    ELSE IF SeqSum(times(results)) = 0
    THEN Raised("ZeroDivisionError", library, operation, query_name)
    ELSE BenchmarkResult(library, operation, query_name, results)

(***************************************************************************)
(* State.                                                                  *)
(***************************************************************************)
VARIABLES
    pc,             \* position of the controlling thread
    run,            \* loop variable of run_benchmark, -1 before the loop
    sync_packages,  \* shuffled copy of SYNC_PACKAGES of the current run
    async_packages, \* shuffled copy of ASYNC_PACKAGES of the current run
    seg,            \* position in the nested loops over packages and entries
    all_results,    \* run_benchmark's all_results
    instances,      \* every package instance constructed so far, with its log
    package,        \* run_*_package's local: index into instances, 0 if none
    results,        \* run_*_package's local results
    it,             \* iterations of run_*_package's for loop started so far
    loop_open,      \* an asyncio.run event loop is running
    aggregated,     \* history: the arguments of every calculate_result call
    endpoint,       \* behaviour of the remote endpoint
    c_args,         \* frame of calculate_result: its arguments
    c_ret,          \* frame of calculate_result: its result
    skip_setup,     \* sys.argv[1] == "--skip-setup"
    steps,          \* history: the steps of the entry point started so far
    csv,            \* the results file written by save_results
    wire            \* history: the HTTP requests sent to the endpoint

vars == << pc, run, sync_packages, async_packages, seg, all_results,
           instances, package, results, it, loop_open, aggregated,
           endpoint, c_args, c_ret, skip_setup, steps, csv, wire >>

NoArgs == [library |-> "", operation |-> "", query_name |-> "", results |-> << >>]

NoRet == Raised("unset", "", "", "")

(***************************************************************************)
(* The remote endpoint, as far as the benchmark observes it: the body it   *)
(* answers a query with, the time the first call over a new connection     *)
(* takes and the time every later call of the segment takes.  A behaviour  *)
(* is chosen initially: the body is empty or of the largest size, the      *)
(* first call is the slow one.  (Nothing in the scheduler or the loops     *)
(* branches on a body or on a duration; calculate_result is explored over  *)
(* all sample sequences in SpecCalc.)                                      *)
(***************************************************************************)
Endpoints ==
    [first : {MaxElapsed}, later : {1},
     body : {Bytes(0), Bytes(MaxPayloadLen)}]

\* time.perf_counter() - start of the n-th call of a segment
elapsed_of(e, n) == IF n = 1 THEN e.first ELSE e.later

(***************************************************************************)
(* The nested loops of one run of run_benchmark, flattened into the        *)
(* sequence of run_sync_package / run_async_package calls they make.       *)
(***************************************************************************)
QuerySegments(group, package_class) ==
    [i \in DOMAIN QUERIES |->
        [group |-> group, package_class |-> package_class,
         entry |-> QUERIES[i].name, operation |-> QUERIES[i].operation,
         is_construct |-> (QUERIES[i].operation = "CONSTRUCT"),
         is_update |-> FALSE]]

\* Variant: the write entries are run in query mode.
UpdateSegmentsAsQueries(group, package_class) ==
    [i \in DOMAIN UPDATES |->
        [group |-> group, package_class |-> package_class,
         entry |-> UPDATES[i].name, operation |-> UPDATES[i].operation,
         is_construct |-> FALSE, is_update |-> FALSE]]

UpdateSegments(group, package_class) ==
    [i \in DOMAIN UPDATES |->
        [group |-> group, package_class |-> package_class,
         entry |-> UPDATES[i].name, operation |-> UPDATES[i].operation,
         is_construct |-> FALSE, is_update |-> TRUE]]

RECURSIVE GroupSegments(_, _)
GroupSegments(group, packages) ==
    IF packages = << >> THEN << >>
    ELSE QuerySegments(group, Head(packages))
            \o UpdateSegments(group, Head(packages))
            \o GroupSegments(group, Tail(packages))

\* Variant: the loops are walked in the opposite order, the async group
\* first and, within a strategy, the write entries first.
RunScheduleReversed(sp, ap) ==
    LET forward == GroupSegments("sync", sp) \o GroupSegments("async", ap)
    IN [n \in DOMAIN forward |-> forward[Len(forward) + 1 - n]]

RunSchedule(sp, ap) == GroupSegments("sync", sp) \o GroupSegments("async", ap)

schedule == RunSchedule(sync_packages, async_packages)

Cur == schedule[seg]

\* Variant: the warmup run is measured too.
IsMeasuredFromWarmup(r) == r >= 0

\* if run > 0: (benchmark.py lines 91, 106, 125, 140)
IsMeasured(r) == r > 0

\* Variant: the loop stops one iteration early.
LoopContinuesOneShort(n) == n < ITERATIONS_PER_QUERY - 1

\* for _ in range(iterations): another iteration is started
LoopContinues(n) == n < ITERATIONS_PER_QUERY

Event(op, kind, val) == [op |-> op, kind |-> kind, val |-> val]

Logged(i, op, kind, val) ==
    [instances EXCEPT ![i].log = Append(@, Event(op, kind, val))]

(***************************************************************************)
(* Initial state: the script has been started, with or without the         *)
(* --skip-setup argument; nothing has run yet.                             *)
(***************************************************************************)
NoFile == [written |-> FALSE, rows |-> << >>]

Init ==
    /\ pc = "entry"
    /\ skip_setup \in BOOLEAN
    /\ steps = << >>
    /\ csv = NoFile
    /\ wire = << >>
    /\ run = -1
    /\ sync_packages = << >>
    /\ async_packages = << >>
    /\ seg = 0
    /\ all_results = << >>
    /\ instances = << >>
    /\ package = 0
    /\ results = << >>
    /\ it = 0
    /\ loop_open = FALSE
    /\ aggregated = << >>
    /\ endpoint \in Endpoints
    /\ c_args = NoArgs
    /\ c_ret = NoRet

(***************************************************************************)
(* The entry point, benchmark.py lines 180-208.  Without --skip-setup,     *)
(* main() provisions the environment and loads the test data first; both   *)
(* steps raise when they fail (setup_virtuoso.py lines 57, 91, 119,        *)
(* benchmark.py line 36), which ends the process.                          *)
(***************************************************************************)
SetupVirtuoso ==
    /\ pc = "entry"
    /\ ~skip_setup
    /\ steps' = Append(steps, "setup_virtuoso")
    /\ pc' \in {"provisioned", "env_failed"}
    /\ UNCHANGED << run, sync_packages, async_packages, seg, all_results,
                    instances, package, results, it, loop_open, aggregated,
                    endpoint, c_args, c_ret, skip_setup, csv, wire >>

LoadTestData ==
    /\ pc = "provisioned"
    /\ steps' = Append(steps, "load_test_data")
    /\ pc' \in {"loaded", "env_failed"}
    /\ UNCHANGED << run, sync_packages, async_packages, seg, all_results,
                    instances, package, results, it, loop_open, aggregated,
                    endpoint, c_args, c_ret, skip_setup, csv, wire >>

\* lines 191 / 205: results = run_benchmark(), all_results = []
EnterBenchmark ==
    /\ \/ pc = "entry" /\ skip_setup
       \/ pc = "loaded"
    /\ steps' = Append(steps, "run_benchmark")
    /\ all_results' = << >>
    /\ pc' = "run_loop"
    /\ UNCHANGED << run, sync_packages, async_packages, seg,
                    instances, package, results, it, loop_open, aggregated,
                    endpoint, c_args, c_ret, skip_setup, csv, wire >>

\* Variant: the environment is torn down in both modes.
AfterSaveAlwaysStops(skip) == "saved"

\* lines 194 / 206: save_results(results) writes one row per record
AfterSave(skip) == IF skip THEN "exit" ELSE "saved"

SaveResults ==
    /\ pc = "done"
    /\ steps' = Append(steps, "save_results")
    /\ csv' = [written |-> TRUE, rows |-> all_results]
    /\ pc' = AfterSave(skip_setup)
    /\ UNCHANGED << run, sync_packages, async_packages, seg, all_results,
                    instances, package, results, it, loop_open, aggregated,
                    endpoint, c_args, c_ret, skip_setup, wire >>

\* line 197: stop_virtuoso()
StopVirtuoso ==
    /\ pc = "saved"
    /\ steps' = Append(steps, "stop_virtuoso")
    /\ pc' = "exit"
    /\ UNCHANGED << run, sync_packages, async_packages, seg, all_results,
                    instances, package, results, it, loop_open, aggregated,
                    endpoint, c_args, c_ret, skip_setup, csv, wire >>

(***************************************************************************)
(* run_benchmark, lines 69-78: the next run starts with two independent    *)
(* shuffles of copies of the registries.                                   *)
(***************************************************************************)
\* Variant: the registries are iterated in their own order, unshuffled.
StartRunUnshuffled ==
    /\ pc = "run_loop"
    /\ run + 1 < NUM_RUNS
    /\ run' = run + 1
    /\ sync_packages' = SYNC_PACKAGES
    /\ async_packages' = ASYNC_PACKAGES
    /\ seg' = 1
    /\ pc' = "segment"
    /\ UNCHANGED << skip_setup, steps, csv, wire >>
    /\ UNCHANGED << all_results, instances, package, results, it, loop_open,
                    aggregated, endpoint, c_args, c_ret >>

\* Variant: the run counter advances by two.
StartRunSkipping ==
    /\ pc = "run_loop"
    /\ run + 1 < NUM_RUNS
    /\ run' = run + 2
    /\ sync_packages' \in Permutations_(SYNC_PACKAGES)
    /\ async_packages' \in Permutations_(ASYNC_PACKAGES)
    /\ seg' = 1
    /\ pc' = "segment"
    /\ UNCHANGED << skip_setup, steps, csv, wire >>
    /\ UNCHANGED << all_results, instances, package, results, it, loop_open,
                    aggregated, endpoint, c_args, c_ret >>

StartRun ==
    /\ pc = "run_loop"
    /\ run + 1 < NUM_RUNS
    /\ run' = run + 1
    /\ sync_packages' \in Permutations_(SYNC_PACKAGES)
    /\ async_packages' \in Permutations_(ASYNC_PACKAGES)
    /\ seg' = 1
    /\ pc' = IF RunSchedule(sync_packages', async_packages') = << >>
             THEN "run_loop" ELSE "segment"
    /\ UNCHANGED << skip_setup, steps, csv, wire >>
    /\ UNCHANGED << all_results, instances, package, results, it, loop_open,
                    aggregated, endpoint, c_args, c_ret >>

\* run_benchmark, line 148: range(NUM_RUNS) is exhausted, return all_results.
FinishBenchmark ==
    /\ pc = "run_loop"
    /\ run + 1 >= NUM_RUNS
    /\ pc' = "done"
    /\ UNCHANGED << skip_setup, steps, csv, wire >>
    /\ UNCHANGED << run, sync_packages, async_packages, seg, all_results,
                    instances, package, results, it, loop_open, aggregated,
                    endpoint, c_args, c_ret >>

(***************************************************************************)
(* run_sync_package / run_async_package, lines 281-282 and 299-300:        *)
(* a fresh instance is constructed and its setup() is called.  The async   *)
(* variant runs inside asyncio.run, i.e. inside a fresh event loop.        *)
(***************************************************************************)
NewInstance(s) ==
    [cls |-> s.package_class, run |-> run, entry |-> s.entry, log |-> << >>]

\* Variant: the instance of the previous segment of the same class, if
\* there is one, is set up again instead of a fresh one.
StartSegmentReusing ==
    /\ pc = "segment"
    /\ LET old == {i \in DOMAIN instances : instances[i].cls = Cur.package_class}
       IN IF old = {}
          THEN /\ package' = Len(instances) + 1
               /\ instances' = Append(instances,
                     [NewInstance(Cur) EXCEPT
                         !.log = << Event("setup", "call", << >>) >>])
          ELSE /\ package' = CHOOSE i \in old : \A j \in old : j <= i
               /\ instances' = Logged(package', "setup", "call", << >>)
    /\ loop_open' = (Cur.group = "async")
    /\ pc' = "in_setup"
    /\ UNCHANGED << skip_setup, steps, csv, wire >>
    /\ UNCHANGED << run, sync_packages, async_packages, seg, all_results,
                    results, it, aggregated, endpoint, c_args, c_ret >>

StartSegment ==
    /\ pc = "segment"
    /\ package' = Len(instances) + 1
    /\ instances' = Append(instances,
          [NewInstance(Cur) EXCEPT !.log = << Event("setup", "call", << >>) >>])
    /\ loop_open' = (Cur.group = "async")
    /\ pc' = "in_setup"
    /\ UNCHANGED << skip_setup, steps, csv, wire >>
    /\ UNCHANGED << run, sync_packages, async_packages, seg, all_results,
                    results, it, aggregated, endpoint, c_args, c_ret >>

\* lines 282-283 / 300-301: setup() returned, results = []
SetupReturns ==
    /\ pc = "in_setup"
    /\ instances' = Logged(package, "setup", "return", << >>)
    /\ results' = << >>
    /\ it' = 0
    /\ pc' = "loop"
    /\ UNCHANGED << skip_setup, steps, csv, wire >>
    /\ UNCHANGED << run, sync_packages, async_packages, seg, all_results,
                    package, loop_open, aggregated, endpoint, c_args, c_ret >>

(***************************************************************************)
(* An exception raised by a call is caught nowhere: neither run_*_package  *)
(* nor run_benchmark has a try statement, so it leaves both frames.        *)
(* asyncio.run closes its event loop on the way out.                       *)
(***************************************************************************)
\* Variant: the samples collected so far are handed to the aggregation on
\* the way out, as with a finally clause around the segment.
PropagateRecording(op) ==
    /\ instances' = Logged(package, op, "raise", << >>)
    /\ loop_open' = FALSE
    /\ pc' = "raised"
    /\ aggregated' = IF IsMeasured(run)
                      THEN Append(aggregated, [inst |-> package, results |-> results])
                      ELSE aggregated
    /\ UNCHANGED << skip_setup, steps, csv, wire >>
    /\ UNCHANGED << run, sync_packages, async_packages, seg, all_results,
                    package, results, it, endpoint, c_args, c_ret >>

\* Variant: run_benchmark catches the exception and returns the records
\* emitted so far, as with try: ... except Exception: return all_results.
PropagateCaught(op) ==
    /\ instances' = Logged(package, op, "raise", << >>)
    /\ loop_open' = FALSE
    /\ pc' = "done"
    /\ UNCHANGED << skip_setup, steps, csv, wire >>
    /\ UNCHANGED << run, sync_packages, async_packages, seg, all_results,
                    package, results, it, aggregated, endpoint, c_args, c_ret >>

Propagate(op) ==
    /\ instances' = Logged(package, op, "raise", << >>)
    /\ loop_open' = FALSE
    /\ pc' = "raised"
    /\ UNCHANGED << skip_setup, steps, csv, wire >>
    /\ UNCHANGED << run, sync_packages, async_packages, seg, all_results,
                    package, results, it, aggregated, endpoint, c_args, c_ret >>

SetupRaises ==
    /\ pc = "in_setup"
    /\ Propagate("setup")

(***************************************************************************)
(* The request a strategy sends, factory.py lines 16-18 and 77-95 (the     *)
(* other strategies send the same request through another client): always  *)
(* one POST, a query as the form field "query" with an Accept header, an   *)
(* update as the raw body with the update Content-Type.                    *)
(***************************************************************************)
QUERY_HEADERS == "Accept: application/sparql-results+json"

CONSTRUCT_HEADERS == "Accept: text/turtle"

UPDATE_HEADERS == "Content-Type: application/sparql-update"

\* Variant: the flag is ignored.
headers_for_tabular_only(is_construct) == QUERY_HEADERS

\* headers = CONSTRUCT_HEADERS if is_construct else QUERY_HEADERS
headers_for(is_construct) ==
    IF is_construct THEN CONSTRUCT_HEADERS ELSE QUERY_HEADERS

query_request(is_construct) ==
    [method |-> "POST", headers |-> headers_for(is_construct),
     body |-> "form field query"]

update_request ==
    [method |-> "POST", headers |-> UPDATE_HEADERS, body |-> "raw content"]

\* Variant: the request is sent a second time.
SentWithRetry(w, i, request) ==
    w \o << [inst |-> i, request |-> request], [inst |-> i, request |-> request] >>

\* self.client.post(...): one round trip
Sent(w, i, request) == Append(w, [inst |-> i, request |-> request])

\* lines 285-290 / 303-308: one more iteration, in query or in update mode
CallQuery ==
    /\ pc = "loop"
    /\ LoopContinues(it)
    /\ ~Cur.is_update
    /\ it' = it + 1
    /\ instances' = Logged(package, "query", "call", << >>)
    /\ wire' = Sent(wire, package, query_request(Cur.is_construct))
    /\ pc' = "in_query"
    /\ UNCHANGED << skip_setup, steps, csv >>
    /\ UNCHANGED << run, sync_packages, async_packages, seg, all_results,
                    package, results, loop_open, aggregated, endpoint,
                    c_args, c_ret >>

CallUpdate ==
    /\ pc = "loop"
    /\ LoopContinues(it)
    /\ Cur.is_update
    /\ it' = it + 1
    /\ instances' = Logged(package, "update", "call", << >>)
    /\ wire' = Sent(wire, package, update_request)
    /\ pc' = "in_update"
    /\ UNCHANGED << skip_setup, steps, csv >>
    /\ UNCHANGED << run, sync_packages, async_packages, seg, all_results,
                    package, results, loop_open, aggregated, endpoint,
                    c_args, c_ret >>

\* lines 290-291 / 308-309: results.append((content, elapsed))
QueryReturns ==
    /\ pc = "in_query"
    /\ LET sample == Sample(endpoint.body, elapsed_of(endpoint, it))
       IN /\ instances' = Logged(package, "query", "return", sample)
          /\ results' = Append(results, sample)
    /\ pc' = "loop"
    /\ UNCHANGED << skip_setup, steps, csv, wire >>
    /\ UNCHANGED << run, sync_packages, async_packages, seg, all_results,
                    package, it, loop_open, aggregated, endpoint, c_args,
                    c_ret >>

\* lines 287-288 / 305-306: results.append((None, elapsed))
UpdateReturns ==
    /\ pc = "in_update"
    /\ instances' = Logged(package, "update", "return", << elapsed_of(endpoint, it) >>)
    /\ results' = Append(results, Sample(None, elapsed_of(endpoint, it)))
    /\ pc' = "loop"
    /\ UNCHANGED << skip_setup, steps, csv, wire >>
    /\ UNCHANGED << run, sync_packages, async_packages, seg, all_results,
                    package, it, loop_open, aggregated, endpoint, c_args,
                    c_ret >>

QueryRaises ==
    /\ pc = "in_query"
    /\ Propagate("query")

UpdateRaises ==
    /\ pc = "in_update"
    /\ Propagate("update")

\* Variant: the results are returned without a teardown() call.
CallTeardownSkipped ==
    /\ pc = "loop"
    /\ ~LoopContinues(it)
    /\ loop_open' = FALSE
    /\ pc' = "returned"
    /\ UNCHANGED << skip_setup, steps, csv, wire >>
    /\ UNCHANGED << run, sync_packages, async_packages, seg, all_results,
                    instances, package, results, it, aggregated, endpoint,
                    c_args, c_ret >>

\* lines 293 / 311: the loop is over, teardown() is called
CallTeardown ==
    /\ pc = "loop"
    /\ ~LoopContinues(it)
    /\ instances' = Logged(package, "teardown", "call", << >>)
    /\ pc' = "in_teardown"
    /\ UNCHANGED << skip_setup, steps, csv, wire >>
    /\ UNCHANGED << run, sync_packages, async_packages, seg, all_results,
                    package, results, it, loop_open, aggregated, endpoint,
                    c_args, c_ret >>

\* lines 294 / 312: return results; asyncio.run closes its event loop
TeardownReturns ==
    /\ pc = "in_teardown"
    /\ instances' = Logged(package, "teardown", "return", << >>)
    /\ loop_open' = FALSE
    /\ pc' = "returned"
    /\ UNCHANGED << skip_setup, steps, csv, wire >>
    /\ UNCHANGED << run, sync_packages, async_packages, seg, all_results,
                    package, results, it, aggregated, endpoint, c_args, c_ret >>

TeardownRaises ==
    /\ pc = "in_teardown"
    /\ Propagate("teardown")

(***************************************************************************)
(* run_benchmark, lines 91-97 (and 106-112, 125-131, 140-146): in a        *)
(* measured run the samples are aggregated and the record is appended;     *)
(* then the nested loops move on to the next entry, package or run.        *)
(***************************************************************************)
\* Variant: every second segment is skipped.
NextSegmentSkipping(n) == n + 2

NextSegment(n) == n + 1

\* Variant: the new record is put in front.
EmitFirst(list, record) == << record >> \o list

\* all_results.append(...)
Emit(list, record) == Append(list, record)

Advance ==
    /\ seg' = NextSegment(seg)
    /\ pc' = IF NextSegment(seg) \in DOMAIN schedule THEN "segment" ELSE "run_loop"

Collect ==
    /\ pc = "returned"
    /\ IsMeasured(run)
    /\ LET record == calculate_result(Cur.package_class, Cur.operation,
                                      Cur.entry, results)
       IN /\ c_args' = [library |-> Cur.package_class,
                        operation |-> Cur.operation,
                        query_name |-> Cur.entry, results |-> results]
          /\ c_ret' = record
          /\ aggregated' = Append(aggregated, [inst |-> package, results |-> results])
          /\ IF record.exc = "none"
             THEN /\ all_results' = Emit(all_results, record)
                  /\ Advance
             ELSE /\ pc' = "raised"
                  /\ UNCHANGED << all_results, seg >>
    /\ UNCHANGED << skip_setup, steps, csv, wire >>
    /\ UNCHANGED << run, sync_packages, async_packages, instances, package,
                    results, it, loop_open, endpoint >>

\* run == 0: the warmup run, the samples are dropped
Discard ==
    /\ pc = "returned"
    /\ ~IsMeasured(run)
    /\ Advance
    /\ UNCHANGED << skip_setup, steps, csv, wire >>
    /\ UNCHANGED << run, sync_packages, async_packages, all_results, instances,
                    package, results, it, loop_open, aggregated, endpoint,
                    c_args, c_ret >>

Next ==
    \/ SetupVirtuoso
    \/ LoadTestData
    \/ EnterBenchmark
    \/ SaveResults
    \/ StopVirtuoso
    \/ StartRun
    \/ FinishBenchmark
    \/ StartSegment
    \/ SetupReturns
    \/ SetupRaises
    \/ CallQuery
    \/ CallUpdate
    \/ QueryReturns
    \/ UpdateReturns
    \/ QueryRaises
    \/ UpdateRaises
    \/ CallTeardown
    \/ TeardownReturns
    \/ TeardownRaises
    \/ Collect
    \/ Discard

Spec == Init /\ [][Next]_vars

(***************************************************************************)
(* The controlling thread keeps running, and a call that is in flight      *)
(* eventually returns or raises (the strategies set transport timeouts).   *)
(***************************************************************************)
SpecFair == Spec /\ WF_vars(Next)

(***************************************************************************)
(* calculate_result on its own: the arguments are drawn from all sample    *)
(* sequences of at most MaxSamples samples, payloads absent or present,    *)
(* for every operation kind.                                               *)
(***************************************************************************)
Samples == (Payloads \cup {None}) \X Elapsed

RECURSIVE SeqsUpTo(_, _)
SeqsUpTo(S, n) ==
    IF n = 0 THEN {<< >>}
    ELSE SeqsUpTo(S, n - 1)
            \cup {Append(q, x) : q \in {r \in SeqsUpTo(S, n - 1) : Len(r) = n - 1}, x \in S}

InitCalc ==
    /\ pc = "calc"
    /\ skip_setup = TRUE
    /\ steps = << >>
    /\ csv = NoFile
    /\ wire = << >>
    /\ run = -1
    /\ sync_packages = << >>
    /\ async_packages = << >>
    /\ seg = 0
    /\ all_results = << >>
    /\ instances = << >>
    /\ package = 0
    /\ results = << >>
    /\ it = 0
    /\ loop_open = FALSE
    /\ aggregated = << >>
    /\ endpoint = [first |-> 1, later |-> 1, body |-> << >>]
    /\ c_args \in [library : {SYNC_PACKAGES[1]}, operation : OperationKinds,
                   query_name : {"q"}, results : SeqsUpTo(Samples, MaxSamples)]
    /\ c_ret = NoRet

CalcCall ==
    /\ pc = "calc"
    /\ c_ret' = calculate_result(c_args.library, c_args.operation,
                                 c_args.query_name, c_args.results)
    /\ pc' = "calc_done"
    /\ UNCHANGED << skip_setup, steps, csv, wire >>
    /\ UNCHANGED << run, sync_packages, async_packages, seg, all_results,
                    instances, package, results, it, loop_open, aggregated,
                    endpoint, c_args >>

NextCalc == CalcCall

SpecCalc == InitCalc /\ [][NextCalc]_vars

(***************************************************************************)
(* Vocabulary of the properties.                                           *)
(***************************************************************************)
Count(log, op, kind) ==
    Cardinality({n \in DOMAIN log : log[n].op = op /\ log[n].kind = kind})

Has(log, op, kind) ==
    \E n \in DOMAIN log : log[n].op = op /\ log[n].kind = kind

HasRaise(log) == \E n \in DOMAIN log : log[n].kind = "raise"

\* The segment of instance i is over: its run_*_package frame is gone.
SegmentOver(i) ==
    \/ i # package
    \/ pc \in {"returned", "segment", "run_loop", "done", "raised",
              "saved", "exit"}

Terminated == pc \in {"done", "raised"}

Strategies == Range(SYNC_PACKAGES) \cup Range(ASYNC_PACKAGES)

Entries == {QUERIES[n].name : n \in DOMAIN QUERIES}
              \cup {UPDATES[n].name : n \in DOMAIN UPDATES}

RecordsOf(c, e) ==
    {n \in DOMAIN all_results :
        all_results[n].library = c /\ all_results[n].query_name = e}

\* Ready: setup() has returned and teardown() has not been called.
Ready(i) ==
    /\ Has(instances[i].log, "setup", "return")
    /\ ~Has(instances[i].log, "teardown", "call")

InFlight(i) ==
    /\ instances[i].log # << >>
    /\ instances[i].log[Len(instances[i].log)].kind = "call"

\* The lifecycle state an instance is in after one more event, "Invalid"
\* once an event happened in a state that does not allow it.
LifecycleStep(state, ev) ==
    IF ev.kind # "call"
    THEN IF ev.op = "setup" /\ ev.kind = "return" /\ state = "Initializing"
         THEN "Ready" ELSE state
    ELSE IF ev.op = "setup"
         THEN IF state = "Uninitialized" THEN "Initializing" ELSE "Invalid"
    ELSE IF ev.op = "teardown"
         THEN IF state = "Ready" THEN "Disposed" ELSE "Invalid"
    ELSE IF state = "Ready" THEN "Ready" ELSE "Invalid"

RECURSIVE LifecycleFrom(_, _, _)
LifecycleFrom(state, log, n) ==
    IF n > Len(log) THEN state
    ELSE LifecycleFrom(LifecycleStep(state, log[n]), log, n + 1)

Lifecycle(state, log) == LifecycleFrom(state, log, 1)

\* The samples the calls of a log returned, in call order.
ReturnedSample(ev) ==
    IF ev.op = "query" THEN ev.val ELSE Sample(None, ev.val[1])

IsSampleReturn(ev) == ev.kind = "return" /\ ev.op \in {"query", "update"}

Returned(log) ==
    LET rets == SelectSeq(log, IsSampleReturn)
    IN [n \in 1..Len(rets) |-> ReturnedSample(rets[n])]

Present(rs) == {n \in DOMAIN rs : rs[n][1] # None}

(***************************************************************************)
(* C1.  Setup and teardown are paired: once the segment of an instance     *)
(* whose setup() returned is over, teardown() has been called on it        *)
(* exactly once, also when one of its query/update calls raised.           *)
(* The code has no try/finally around the loop: a raising call skips       *)
(* teardown().                                                             *)
(***************************************************************************)
C1_TeardownAlwaysPaired ==
    \A i \in DOMAIN instances :
        (SegmentOver(i) /\ Count(instances[i].log, "setup", "return") = 1)
            => Count(instances[i].log, "teardown", "call") = 1

(***************************************************************************)
(* C2.  Warmup samples are never emitted: while run is 0 (or the loop has  *)
(* not started) all_results is empty, and every sample list handed to      *)
(* calculate_result was collected by an instance of a run other than 0.    *)
(***************************************************************************)
C2_WarmupNeverEmitted ==
    /\ run <= 0 => all_results = << >>
    /\ \A n \in DOMAIN aggregated : instances[aggregated[n].inst].run # 0
    /\ Len(all_results) <= Len(aggregated)

C2_Witness ==
    /\ all_results # << >>
    /\ \E i \in DOMAIN instances :
          /\ instances[i].run = 0
          /\ Count(instances[i].log, "query", "return") = ITERATIONS_PER_QUERY

(***************************************************************************)
(* C3.  A failed call is confined to its (strategy, entry, run) triple:    *)
(* the scheduler goes on, so when run_benchmark is over every (run,        *)
(* strategy, entry) triple has had its segment.                            *)
(* In the code the exception leaves run_benchmark: nothing runs after it.  *)
(***************************************************************************)
C3_FailureConfined ==
    Terminated =>
        \A r \in 0..(NUM_RUNS - 1), c \in Strategies, e \in Entries :
            \E i \in DOMAIN instances :
                /\ instances[i].run = r
                /\ instances[i].cls = c
                /\ instances[i].entry = e

(***************************************************************************)
(* C4.  Abort property: the samples of a segment in which a call raised    *)
(* never reach calculate_result, and once the exception has left           *)
(* run_benchmark the failed (strategy, entry) pair has only the records    *)
(* of the measured runs before the current one.                            *)
(***************************************************************************)
C4_AbortEmitsNothing ==
    /\ \A n \in DOMAIN aggregated : ~HasRaise(instances[aggregated[n].inst].log)
    /\ \A n \in DOMAIN aggregated :
          Len(aggregated[n].results) = ITERATIONS_PER_QUERY
    /\ Len(all_results) <= Len(aggregated)
    /\ (pc = "raised" /\ run > 0) =>
          Cardinality(RecordsOf(Cur.package_class, Cur.entry)) = run - 1

C4_Witness ==
    /\ pc = "raised"
    /\ run > 1
    /\ it < ITERATIONS_PER_QUERY
    /\ results # << >>
    /\ HasRaise(instances[package].log)

(***************************************************************************)
(* C5.  Absent failures, run_benchmark returns (NUM_RUNS - 1) x            *)
(* |strategies| x |entries| records: for every (strategy, entry) pair      *)
(* NUM_RUNS - 1 records, one from each run 1 .. NUM_RUNS - 1.              *)
(***************************************************************************)
C5_RecordCount ==
    pc = "done" =>
        /\ Len(all_results) =
              (NUM_RUNS - 1) * Cardinality(Strategies) * Cardinality(Entries)
        /\ \A c \in Strategies, e \in Entries :
              /\ Cardinality(RecordsOf(c, e)) = NUM_RUNS - 1
              /\ \A r \in 1..(NUM_RUNS - 1) :
                    Cardinality({n \in DOMAIN aggregated :
                        /\ instances[aggregated[n].inst].run = r
                        /\ instances[aggregated[n].inst].cls = c
                        /\ instances[aggregated[n].inst].entry = e
                        /\ all_results[n].library = c
                        /\ all_results[n].query_name = e}) = 1

C5_Witness ==
    /\ pc = "done"
    /\ Len(all_results) > Cardinality(Strategies) * Cardinality(Entries)

(***************************************************************************)
(* C6.  For a read operation success_rate is the number of samples whose   *)
(* payload is present divided by k: 1.0 when all are present, 0.0 when     *)
(* none is.                                                                *)
(* The code tests the sample tuple, not its payload, so every sample       *)
(* counts and success_rate is 1.0 for every input.                         *)
(***************************************************************************)
C6_ReadSuccessRate ==
    (pc = "calc_done" /\ c_ret.exc = "none"
        /\ c_args.operation \notin MutatingKinds)
    => c_ret.success_rate
          = TrueDiv(Cardinality(Present(c_args.results)), Len(c_args.results))

(***************************************************************************)
(* C7.  For a mutating operation (INSERT, DELETE, UPDATE) success_rate is  *)
(* 1.0 for every sample sequence of length k >= 1, whether the payloads    *)
(* are present or absent.                                                  *)
(***************************************************************************)
C7_WriteSuccessRate ==
    (pc = "calc_done" /\ c_args.operation \in MutatingKinds
        /\ Len(c_args.results) >= 1)
    => /\ c_ret.exc = "none"
       /\ c_ret.success_rate = << 1, 1 >>

C7_Witness ==
    /\ pc = "calc_done"
    /\ c_args.operation \in MutatingKinds
    /\ Len(c_args.results) >= 2
    /\ Present(c_args.results) = {}
    /\ c_ret.success_rate = << 1, 1 >>

(***************************************************************************)
(* C8.  Absent failures the invocation loop returns exactly                *)
(* ITERATIONS_PER_QUERY samples, the values its calls returned in call     *)
(* order, and every sample list handed to calculate_result has that        *)
(* length, which is at least 1.                                            *)
(***************************************************************************)
C8_ExactlyKSamples ==
    /\ ITERATIONS_PER_QUERY >= 1
    /\ pc = "returned" =>
          /\ Len(results) = ITERATIONS_PER_QUERY
          /\ results = Returned(instances[package].log)
    /\ \A n \in DOMAIN aggregated :
          /\ Len(aggregated[n].results) = ITERATIONS_PER_QUERY
          /\ aggregated[n].results = Returned(instances[aggregated[n].inst].log)

C8_Witness ==
    /\ pc = "returned"
    /\ aggregated # << >>
    /\ Len(results) = ITERATIONS_PER_QUERY
    /\ \E m, n \in DOMAIN results : results[m] # results[n]

(***************************************************************************)
(* C9.  Total serialization: at most one instance is between the return    *)
(* of its setup() and the call of its teardown(), at most one call is in   *)
(* flight, both on the instance of the current segment, and an event loop  *)
(* runs only for the current async segment.                                *)
(***************************************************************************)
C9_NoConcurrency ==
    /\ Cardinality({i \in DOMAIN instances : Ready(i)}) <= 1
    /\ Cardinality({i \in DOMAIN instances : InFlight(i)}) <= 1
    /\ \A i \in DOMAIN instances : (Ready(i) \/ InFlight(i)) => i = package
    /\ loop_open => (Cur.group = "async" /\ instances[package].cls = Cur.package_class)

C9_Witness ==
    /\ loop_open
    /\ Ready(package)
    /\ InFlight(package)
    /\ \E i \in DOMAIN instances :
          /\ instances[i].cls # instances[package].cls
          /\ instances[i].run = run
          /\ Count(instances[i].log, "teardown", "return") = 1

(***************************************************************************)
(* C10.  Lifecycle Uninitialized -> Ready -> Disposed: on every instance   *)
(* setup() is called only while it is Uninitialized, query/update only     *)
(* while it is Ready, and nothing after teardown() was called.             *)
(***************************************************************************)
C10_Lifecycle ==
    \A i \in DOMAIN instances :
        Lifecycle("Uninitialized", instances[i].log) # "Invalid"

C10_Witness ==
    /\ \E i \in DOMAIN instances :
          /\ Lifecycle("Uninitialized", instances[i].log) = "Disposed"
          /\ Count(instances[i].log, "query", "return") = ITERATIONS_PER_QUERY
          /\ i # package
          /\ instances[i].cls = instances[package].cls
    /\ Lifecycle("Uninitialized", instances[package].log) = "Ready"
    /\ pc = "in_update"

(***************************************************************************)
(* C11.  Warmup comes first: whenever a record has been emitted, every     *)
(* (strategy, entry) pair has completed a full segment of                  *)
(* ITERATIONS_PER_QUERY calls in run 0, and every run that is over,        *)
(* measured or not, has executed the same set of segments as run 0: one    *)
(* for each (strategy, entry) pair.                                        *)
(***************************************************************************)
CompletedIn(r, c, e) ==
    \E i \in DOMAIN instances :
        /\ instances[i].run = r
        /\ instances[i].cls = c
        /\ instances[i].entry = e
        /\ Has(instances[i].log, "teardown", "return")
        /\ Len(Returned(instances[i].log)) = ITERATIONS_PER_QUERY

SegmentsOf(r) ==
    {<< instances[i].cls, instances[i].entry >> :
        i \in {j \in DOMAIN instances : instances[j].run = r}}

RunOver(r) == r < run \/ (r = run /\ pc \in {"run_loop", "done"})

C11_WarmupFirst ==
    /\ all_results # << >> =>
          \A c \in Strategies, e \in Entries : CompletedIn(0, c, e)
    /\ \A r \in 0..(NUM_RUNS - 1) :
          RunOver(r) => SegmentsOf(r) = Strategies \X Entries
    /\ \A r \in 1..(NUM_RUNS - 1) : SegmentsOf(r) \subseteq SegmentsOf(0)

C11_Witness ==
    /\ Len(all_results) = 1
    /\ run = 1
    /\ \A c \in Strategies, e \in Entries : CompletedIn(0, c, e)

(***************************************************************************)
(* C12.  Determinism check: for k >= 1 samples that all took the same time *)
(* e > 0 and all carry a payload of the same size s, total_time = k * e,   *)
(* requests_per_sec = 1 / e, avg_request_time = e and                      *)
(* response_size_bytes = s.  Quotients are exact rationals.                *)
(***************************************************************************)
Uniform(rs) ==
    /\ rs # << >>
    /\ \A n \in DOMAIN rs : rs[n] = rs[1]
    /\ rs[1][1] # None
    /\ rs[1][2] > 0

C12_Determinism ==
    (pc = "calc_done" /\ Uniform(c_args.results)) =>
        LET k == Len(c_args.results)
            e == c_args.results[1][2]
            s == Len(c_args.results[1][1])
        IN /\ c_ret.exc = "none"
           /\ c_ret.total_time = k * e
           /\ c_ret.requests_per_sec = TrueDiv(1, e)
           /\ c_ret.avg_request_time = TrueDiv(e, 1)
           /\ c_ret.requests_per_sec[1] * c_ret.total_time
                 = k * c_ret.requests_per_sec[2]
           /\ c_ret.avg_request_time[1] * k
                 = c_ret.total_time * c_ret.avg_request_time[2]
           /\ c_ret.response_size_bytes = s

C12_Witness ==
    /\ pc = "calc_done"
    /\ Uniform(c_args.results)
    /\ Len(c_args.results) >= 2
    /\ c_args.results[1][2] = MaxElapsed
    /\ Len(c_args.results[1][1]) = MaxPayloadLen
    /\ c_ret.requests_per_sec = << 1, MaxElapsed >>

(***************************************************************************)
(* C13.  response_size_bytes is the byte length of the first sample's      *)
(* payload if that payload is present and 0 if it is absent (or empty),    *)
(* whatever the later samples carry.                                       *)
(***************************************************************************)
C13_FirstSampleSize ==
    (pc = "calc_done" /\ c_args.results # << >>) =>
        /\ c_ret.exc = "none"
        /\ c_ret.response_size_bytes =
              IF c_args.results[1][1] = None THEN 0
              ELSE Len(c_args.results[1][1])

C13_Witness ==
    /\ pc = "calc_done"
    /\ Len(c_args.results) >= 2
    /\ c_args.results[1][1] # None
    /\ Len(c_args.results[1][1]) = MaxPayloadLen
    /\ c_args.results[2][1] = None
    /\ c_ret.response_size_bytes = MaxPayloadLen

(***************************************************************************)
(* C14.  Entry point ordering: without --skip-setup the steps are started  *)
(* in the order setup_virtuoso, load_test_data, run_benchmark,             *)
(* save_results, stop_virtuoso; with it only run_benchmark and then        *)
(* save_results are ever started.                                          *)
(***************************************************************************)
ExpectedSteps(skip) ==
    IF skip THEN << "run_benchmark", "save_results" >>
    ELSE << "setup_virtuoso", "load_test_data", "run_benchmark",
            "save_results", "stop_virtuoso" >>

IsPrefix(a, b) == Len(a) <= Len(b) /\ SubSeq(b, 1, Len(a)) = a

C14_EntryPointOrder ==
    /\ IsPrefix(steps, ExpectedSteps(skip_setup))
    /\ pc = "exit" => steps = ExpectedSteps(skip_setup)
    /\ csv.written <=> "save_results" \in Range(steps)

C14_Witness ==
    /\ pc = "exit"
    /\ skip_setup
    /\ steps = << "run_benchmark", "save_results" >>
    /\ csv.written

(***************************************************************************)
(* C15.  One invocation loop per catalog entry: in every run and for       *)
(* every strategy no entry has more than one segment, exactly one once     *)
(* the run is over; the segment of a read entry makes query calls only,    *)
(* the segment of a write entry update calls only.                         *)
(***************************************************************************)
ReadEntries == {QUERIES[n].name : n \in DOMAIN QUERIES}

WriteEntries == {UPDATES[n].name : n \in DOMAIN UPDATES}

\* The (run, strategy, entry) triples for which a segment has been started.
Segments ==
    {<< instances[i].run, instances[i].cls, instances[i].entry >> :
        i \in DOMAIN instances}

C15_OncePerEntry ==
    /\ \A i \in DOMAIN instances :
          /\ instances[i].entry \in ReadEntries
                => ~Has(instances[i].log, "update", "call")
          /\ instances[i].entry \in WriteEntries
                => ~Has(instances[i].log, "query", "call")
    /\ LET started == Segments
           over == IF pc \in {"done", "saved", "exit"} THEN NUM_RUNS ELSE run
       IN \* no repetition: as many triples as segments
          /\ Cardinality(started) = Len(instances)
          \* no omission: a run that is over has had every triple
          /\ (0..(over - 1)) \X Strategies \X Entries \subseteq started
          /\ started \subseteq (0..(NUM_RUNS - 1)) \X Strategies \X Entries

C15_Witness ==
    /\ pc = "done"
    /\ \E i, j \in DOMAIN instances :
          /\ instances[i].cls = instances[j].cls
          /\ instances[i].run = instances[j].run
          /\ Count(instances[i].log, "query", "call") = ITERATIONS_PER_QUERY
          /\ Count(instances[j].log, "update", "call") = ITERATIONS_PER_QUERY

(***************************************************************************)
(* C16.  Shuffle: during a run the sync order holds every sync strategy    *)
(* exactly once and the async order every async strategy exactly once,     *)
(* and whenever a run is about to start, every pair of a permutation of    *)
(* the sync registry and a permutation of the async registry can be        *)
(* chosen, whatever the earlier runs chose.                                *)
(***************************************************************************)
IsShuffleOf(p, registry) ==
    /\ Len(p) = Len(registry)
    /\ \A x \in Range(registry) : Cardinality({n \in DOMAIN p : p[n] = x}) = 1

Calls(log) ==
    Cardinality({n \in DOMAIN log :
        log[n].kind = "call" /\ log[n].op \in {"query", "update"}})

RECURSIVE TotalCalls(_, _)
TotalCalls(made, n) ==
    IF n = 0 THEN 0 ELSE made[n] + TotalCalls(made, n - 1)

RequestsOf(i) == Cardinality({n \in DOMAIN wire : wire[n].inst = i})

C17_OneRoundTripPerCall ==
    /\ LET made == [i \in DOMAIN instances |-> Calls(instances[i].log)]
       IN /\ Len(wire) = TotalCalls(made, Len(instances))
          /\ package # 0 => RequestsOf(package) = made[package]
          /\ \A i \in DOMAIN instances :
                Has(instances[i].log, "teardown", "return")
                    => made[i] = ITERATIONS_PER_QUERY
    /\ pc \in {"done", "saved", "exit"} =>
          Len(wire) = NUM_RUNS * Cardinality(Strategies) * Cardinality(Entries)
                         * ITERATIONS_PER_QUERY

C17_Witness ==
    /\ pc = "done"
    /\ Len(wire) = NUM_RUNS * Cardinality(Strategies) * Cardinality(Entries)
                      * ITERATIONS_PER_QUERY
    /\ RequestsOf(package) = ITERATIONS_PER_QUERY

(***************************************************************************)
(* C18.  The construct flag is true exactly for CONSTRUCT entries: every   *)
(* request of a SELECT or ASK segment asks for the tabular serialization,  *)
(* every request of a CONSTRUCT segment for the graph serialization; all   *)
(* of them are POSTs of the form field, none carries the update            *)
(* Content-Type, which the requests of write entries carry.                *)
(***************************************************************************)
KindTable ==
    [e \in Entries |->
        IF e \in ReadEntries
        THEN QUERIES[CHOOSE n \in DOMAIN QUERIES : QUERIES[n].name = e].operation
        ELSE UPDATES[CHOOSE n \in DOMAIN UPDATES : UPDATES[n].name = e].operation]

KindOf(e) == KindTable[e]

\* What the claim allows on the wire for an entry of the given kind.
Conforms(rq, kind) ==
    /\ rq.method = "POST"
    /\ kind = "CONSTRUCT" => rq.headers = CONSTRUCT_HEADERS
    /\ kind \in {"SELECT", "ASK"} => rq.headers = QUERY_HEADERS
    /\ kind \notin MutatingKinds => rq.body = "form field query"
    /\ kind \in MutatingKinds <=> rq.headers = UPDATE_HEADERS

C18_ConstructFlag ==
    /\ \A n \in DOMAIN wire :
          Conforms(wire[n].request, KindTable[instances[wire[n].inst].entry])
    /\ run >= 0 =>
          LET planned == schedule
          IN \A n \in DOMAIN planned :
                /\ planned[n].is_construct <=> planned[n].operation = "CONSTRUCT"
                /\ planned[n].is_update <=> planned[n].operation \in MutatingKinds

C18_Witness ==
    /\ \E m, n, a \in DOMAIN wire :
          /\ KindOf(instances[wire[m].inst].entry) = "SELECT"
          /\ wire[m].request.headers = QUERY_HEADERS
          /\ KindOf(instances[wire[a].inst].entry) = "ASK"
          /\ wire[a].request.headers = QUERY_HEADERS
          /\ instances[wire[a].inst].cls = instances[wire[n].inst].cls
          /\ KindOf(instances[wire[n].inst].entry) = "CONSTRUCT"
          /\ wire[n].request.headers = CONSTRUCT_HEADERS
          /\ instances[wire[m].inst].cls = instances[wire[n].inst].cls

(***************************************************************************)
(* C19.  Termination: when every call returns without error,               *)
(* run_benchmark eventually returns, after the run counter has gone        *)
(* through 0 .. NUM_RUNS - 1 one by one; and while a call is in flight     *)
(* nothing else happens: the only step possible is that call returning or  *)
(* raising, so a call that never returns blocks the benchmark for good.    *)
(***************************************************************************)
InCall == {"in_setup", "in_query", "in_update", "in_teardown"}

OnlyTheCallEnds ==
    /\ pc' \in {"loop", "returned", "raised"}
    /\ package' = package
    /\ Len(instances') = Len(instances)
    /\ wire' = wire

C19_Termination ==
    /\ [](pc \notin {"raised", "env_failed"}) => <>(pc = "done")
    /\ [][run' # run => (run' = run + 1 /\ run' < NUM_RUNS)]_vars
    /\ [](pc \in {"done", "saved", "exit"} => run = NUM_RUNS - 1)
    /\ [][(pc \in InCall) => OnlyTheCallEnds]_vars

C19_Witness ==
    /\ pc = "done"
    /\ run = NUM_RUNS - 1
    /\ \A r \in 0..(NUM_RUNS - 1) : \E i \in DOMAIN instances : instances[i].run = r

(***************************************************************************)
(* C20.  all_results is append-only: every step leaves the records         *)
(* already emitted where they are and as they are, and the records are in  *)
(* the order in which their segments completed.                            *)
(***************************************************************************)
C20_AppendOnly ==
    /\ [][IsPrefix(all_results, all_results')]_vars
    /\ [](\A n \in DOMAIN all_results :
            /\ all_results[n].library = instances[aggregated[n].inst].cls
            /\ all_results[n].query_name = instances[aggregated[n].inst].entry
            /\ n > 1 => aggregated[n - 1].inst < aggregated[n].inst)
    /\ [](csv.written => csv.rows = all_results)

C20_Witness ==
    /\ Len(all_results) >= 2
    /\ all_results[1].library # all_results[Len(all_results)].library
    /\ pc = "exit"


(***************************************************************************)
(* C21.  One instance per segment: the instance a segment works on was     *)
(* constructed for that segment's run, strategy and entry, it is set up    *)
(* once and torn down at most once, and a run that is over without a       *)
(* failure has made |strategies| x |entries| setup() calls and as many     *)
(* teardown() calls, each on an instance of its own.                       *)
(***************************************************************************)
SegmentActive ==
    pc \in {"in_setup", "loop", "in_query", "in_update", "in_teardown",
            "returned"}

SegmentsPerRun == Cardinality(Strategies) * Cardinality(Entries)

C21_FreshInstance ==
    /\ SegmentActive =>
          /\ package = Len(instances)
          /\ instances[package].run = run
          /\ instances[package].cls = Cur.package_class
          /\ instances[package].entry = Cur.entry
    /\ LET setups == [i \in DOMAIN instances |->
                         Count(instances[i].log, "setup", "call")]
           teardowns == [i \in DOMAIN instances |->
                            Count(instances[i].log, "teardown", "call")]
           over == IF pc \in {"done", "saved", "exit"} THEN NUM_RUNS ELSE run
       IN /\ \A i \in DOMAIN instances : setups[i] = 1 /\ teardowns[i] <= 1
          /\ \A r \in 0..(over - 1) :
                LET made == {i \in DOMAIN instances : instances[i].run = r}
                IN /\ Cardinality(made) = SegmentsPerRun
                   /\ \A i \in made : teardowns[i] = 1

C21_Witness ==
    /\ pc = "run_loop"
    /\ run = 1
    /\ Len(instances) = 2 * SegmentsPerRun
    /\ \A i \in DOMAIN instances :
          /\ Count(instances[i].log, "setup", "call") = 1
          /\ Count(instances[i].log, "teardown", "call") = 1
    /\ instances[1].cls = instances[2].cls
    /\ instances[1].entry # instances[2].entry

(***************************************************************************)
(* C22.  Order within a run: the segments are started run by run and, in   *)
(* a run, those of the sync strategies before those of the async ones; a   *)
(* segment is started only when every earlier one has returned; and for    *)
(* one strategy in one run no read entry is started after a write entry.   *)
(***************************************************************************)
IsAsync(i) == instances[i].cls \in Range(ASYNC_PACKAGES)

IsWrite(i) == instances[i].entry \in WriteEntries

\* Position of a segment in the order the claim prescribes: the run, then
\* the group.
GroupRank(i) == 2 * instances[i].run + (IF IsAsync(i) THEN 1 ELSE 0)

Completed(i) ==
    LET log == instances[i].log
    IN log # << >> /\ log[Len(log)] = Event("teardown", "return", << >>)

C22_GroupOrder ==
    /\ \A i \in 1..(Len(instances) - 1) :
          /\ GroupRank(i) <= GroupRank(i + 1)
          /\ Completed(i)
    /\ \A j \in DOMAIN instances :
          ~IsWrite(j) =>
              \A i \in 1..(j - 1) :
                  (instances[i].run = instances[j].run
                      /\ instances[i].cls = instances[j].cls) => ~IsWrite(i)

C22_Witness ==
    /\ pc = "in_setup"
    /\ IsAsync(package)
    /\ \E i, j \in 1..(package - 1) :
          /\ instances[i].run = run /\ instances[j].run = run
          /\ ~IsAsync(i) /\ ~IsAsync(j)
          /\ instances[i].cls = instances[j].cls
          /\ ~IsWrite(i) /\ IsWrite(j) /\ i < j
          /\ Completed(i) /\ Completed(j)

(***************************************************************************)
(* C23.  Persistence only after all runs: once a call has raised, the      *)
(* process is over where it stands, no file is written and the             *)
(* environment is not stopped, whatever had been emitted; and a file that  *)
(* is written holds the records of a benchmark that went through all its   *)
(* runs without a raise.                                                   *)
(***************************************************************************)
AnyRaise == \E i \in DOMAIN instances : HasRaise(instances[i].log)

C23_PersistOnlyAfterAllRuns ==
    /\ [](AnyRaise =>
            /\ pc = "raised"
            /\ ~csv.written
            /\ "save_results" \notin Range(steps)
            /\ "stop_virtuoso" \notin Range(steps))
    /\ [](pc = "raised" => ~csv.written /\ ~ENABLED Next)
    /\ []("save_results" \in Range(steps) =>
            /\ run = NUM_RUNS - 1
            /\ Len(instances) = NUM_RUNS * SegmentsPerRun
            /\ Completed(Len(instances)))

C23_Witness ==
    /\ pc = "raised"
    /\ ~skip_setup
    /\ steps = << "setup_virtuoso", "load_test_data", "run_benchmark" >>
    /\ run = NUM_RUNS - 1
    /\ all_results # << >>
    /\ HasRaise(instances[package].log)
    /\ ~csv.written
=============================================================================
